---- MODULE Spec2Model ----
(***************************************************************************)
(* pngme: the chunk-type codec (src/src/chunk_type.rs), the chunk codec    *)
(* (src/src/chunk.rs) and the four command-line verbs (src/src/main.rs).   *)
(*                                                                         *)
(* Text is kept as its UTF-8 bytes: "RuSt" is <<82, 117, 83, 116>>.        *)
(* A u32 is kept as its 32 bits, most significant first, because 2^32      *)
(* does not fit the model checker's integers.                              *)
(***************************************************************************)
EXTENDS Naturals, Sequences, FiniteSets

VARIABLES
    ct_pc,      \* chunk-type harness: "idle" | "start" | "made" | "called"
    ct_arg,     \* the argument of the constructor: [kind, bytes]
    ct_res,     \* the constructor's Result<ChunkType>
    ct_call,    \* the last method called on the ChunkType and what it returned
    ck_pc,      \* chunk harness: "idle" | "start" | "rejected" | "built" | "wire"
                \*                | "input" | "parsed" | "done"
    ck_arg,     \* the arguments of Chunk::new: [via, chunk_type, chunk_data]
    ck_chunk,   \* the Chunk built by Chunk::new
    ck_wire,    \* as_bytes() of ck_chunk
    ck_tamper,  \* what was done to ck_wire to get ck_input
    ck_input,   \* the slice handed to Chunk::try_from
    ck_parsed,  \* the Result<Chunk> of the parse
    ck_back,    \* as_bytes() of the parsed Chunk
    fs,         \* the files: path -> [exists, data]
    last        \* the last verb run: its arguments, the files before it, its
                \* Result, its file operations in order, the Png it held when it
                \* returned, and what it printed

ct_vars == <<ct_pc, ct_arg, ct_res, ct_call>>

ck_vars == <<ck_pc, ck_arg, ck_chunk, ck_wire, ck_tamper, ck_input, ck_parsed, ck_back>>

cli_vars == <<fs, last>>

vars == <<ct_vars, ck_vars, cli_vars>>

None == [none |-> TRUE]

Some(v) == [some |-> TRUE, val |-> v]

Nothing == [some |-> FALSE]

\* F applied to the value of v, which is computed once however often F uses it.
With(v, F(_)) == CHOOSE out \in {F(x) : x \in {v}} : TRUE

NoCall == [op |-> "none"]

Paths == {"img", "out"}

\* The paths handed to the verbs as the image and as encode's output file.
ImagePaths == {"img"}

OutputPaths == {"out"}

NoFile == [exists |-> FALSE, data |-> <<>>]

File(data) == [exists |-> TRUE, data |-> data]

NoCmd == [cmd |-> "none"]

CliIdle ==
    /\ fs = [p \in Paths |-> NoFile]
    /\ last = NoCmd

TypeIdle ==
    /\ ct_pc = "idle"
    /\ ct_arg = None
    /\ ct_res = None
    /\ ct_call = NoCall

ChunkIdle ==
    /\ ck_pc = "idle"
    /\ ck_arg = None
    /\ ck_chunk = None
    /\ ck_wire = <<>>
    /\ ck_tamper = None
    /\ ck_input = <<>>
    /\ ck_parsed = None
    /\ ck_back = <<>>

----------------------------------------------------------------------------
(* Bounds and sample alphabets.                                            *)

\* Longest string handed to ChunkType::from_str.
MaxStrLen == 5

\* 'R' 'r' 'u' 'S' 's' 't' 'T' and the digit '1'.
StrBytes == {82, 114, 117, 83, 115, 116, 84, 49}

\* Bytes of a [u8; 4]: 'R' 'u' 'S' 's' 't', the characters next to the
\* letter ranges ('@' '[' '`' '{'), a digit, and a non-ASCII byte.
ArrayBytes == {82, 117, 83, 115, 116, 64, 91, 96, 123, 49, 200}

StrArgs == UNION {[1..n -> StrBytes] : n \in 0..MaxStrLen}

ArrayArgs == [1..4 -> ArrayBytes]

\* Longest payload handed to Chunk::new.
MaxPayload == 2

\* 0x00, 'h' and 0xFF.
PayloadBytes == {0, 104, 255}

PayloadArgs == UNION {[1..n -> PayloadBytes] : n \in 0..MaxPayload}

\* "RuSt" "Rust" "ruSt" "IEND" "Ru1t" "Ru"
TypeArgs ==
    {<<82, 117, 83, 116>>, <<82, 117, 115, 116>>, <<114, 117, 83, 116>>,
     <<73, 69, 78, 68>>, <<82, 117, 49, 116>>, <<82, 117>>}

\* Most chunks in a container that encode still appends to.
MaxChunks == 2

\* Messages handed to encode: "h"
MessageArgs == {<<104>>}

\* Chunk types handed to the verbs:
\* "ruSt" "RuSt" "Rust" "Ru1t" "Ru" "IEND" "ruST" "rUSt"
VerbTypeArgs ==
    {<<114, 117, 83, 116>>, <<82, 117, 83, 116>>, <<82, 117, 115, 116>>,
     <<82, 117, 49, 116>>, <<82, 117>>, <<73, 69, 78, 68>>,
     <<114, 117, 83, 84>>, <<114, 85, 83, 116>>}

\* Bytes that follow a chunk in a longer slice.
TrailingArgs == {<<0>>, <<0, 0, 0, 0, 73, 69, 78, 68, 174, 66, 96, 130>>}

----------------------------------------------------------------------------
(* Bit arithmetic on bytes.                                                *)

RECURSIVE BitAnd(_, _)
BitAnd(a, b) ==
    IF a = 0 \/ b = 0 THEN 0
    ELSE (a % 2) * (b % 2) + 2 * BitAnd(a \div 2, b \div 2)

is_ascii_lowercase(b) == b \in 97..122

is_ascii_uppercase(b) == b \in 65..90

----------------------------------------------------------------------------
(* chunk_type.rs                                                           *)

Ok == [ok |-> TRUE]

OkVal(v) == [ok |-> TRUE, val |-> v]

Err(kind) == [ok |-> FALSE, kind |-> kind]

\* error::invalid_character: the message names the character and position.
invalid_character(c, pos) ==
    [ok |-> FALSE, kind |-> "InvalidCharacter", c |-> c, pos |-> pos]

\* error::invalid_length
invalid_length == Err("InvalidLength")

\* ChunkType::validate_chars: the first byte that is no ASCII letter, with
\* its zero-based position, or None.
validate_chars(bytes) ==
    LET bad == {i \in 1..Len(bytes) :
                   ~(is_ascii_lowercase(bytes[i]) \/ is_ascii_uppercase(bytes[i]))}
    IN  IF bad = {} THEN None
        ELSE LET i == CHOOSE j \in bad : \A k \in bad : j <= k
             IN  [none |-> FALSE, c |-> bytes[i], pos |-> i - 1]

is_length_valid(self) == Len(self.bytes) = 4

is_critical(self) == BitAnd(self.bytes[1], 2^5) = 0

is_public(self) == BitAnd(self.bytes[2], 2^5) = 0

is_reserved_bit_valid(self) == BitAnd(self.bytes[3], 2^5) = 0

\* Faulty variant: the test of the fourth byte's bit 5 inverted.
is_safe_to_copy_inverted(self) == BitAnd(self.bytes[4], 2^5) = 0

is_safe_to_copy(self) == BitAnd(self.bytes[4], 2^5) > 0

\* Faulty variant: is_valid without the reserved-bit rule.
is_valid_no_reserved_bit(self) ==
    LET v == validate_chars(self.bytes)
    IN  IF ~v.none THEN invalid_character(v.c, v.pos)
        ELSE IF ~is_length_valid(self) THEN invalid_length
        ELSE Ok

is_valid(self) ==
    LET v == validate_chars(self.bytes)
    IN  IF ~v.none THEN invalid_character(v.c, v.pos)
        ELSE IF ~is_length_valid(self) THEN invalid_length
        ELSE IF ~is_reserved_bit_valid(self) THEN Err("ReservedBitInvalid")
        ELSE Ok

\* Faulty variant: the public rule checked before the critical rule.
is_valid_for_message_public_first(self) ==
    LET r == is_valid(self)
    IN  IF ~r.ok THEN r
        ELSE IF is_public(self) THEN Err("Public")
        ELSE IF is_critical(self) THEN Err("Critical")
        ELSE IF ~is_safe_to_copy(self) THEN Err("UnsafeToCopy")
        ELSE Ok

is_valid_for_message(self) ==
    LET r == is_valid(self)
    IN  IF ~r.ok THEN r
        ELSE IF is_critical(self) THEN Err("Critical")
        ELSE IF is_public(self) THEN Err("Public")
        ELSE IF ~is_safe_to_copy(self) THEN Err("UnsafeToCopy")
        ELSE Ok

bytes(self) == self.bytes

\* Faulty variant: construction from 4 bytes without the is_valid call.
try_from_unchecked(b) == OkVal([bytes |-> b])

\* impl TryFrom<[u8; 4]> for ChunkType
try_from(b) ==
    LET chunk_type == [bytes |-> b]
        r == is_valid(chunk_type)
    IN  IF ~r.ok THEN r ELSE OkVal(chunk_type)

\* Faulty variant: the length rule checked before the characters.
from_str_length_first(s) ==
    LET v == validate_chars(s)
    IN  IF Len(s) # 4 THEN invalid_length
        ELSE IF ~v.none THEN invalid_character(v.c, v.pos)
        ELSE OkVal([bytes |-> s])

\* impl FromStr for ChunkType
from_str(s) ==
    LET v == validate_chars(s)
    IN  IF ~v.none THEN invalid_character(v.c, v.pos)
        ELSE IF Len(s) # 4 THEN invalid_length
        ELSE OkVal([bytes |-> s])

\* impl Display for ChunkType: each byte as the character of that code point.
to_string(self) == [i \in 1..4 |-> self.bytes[i]]

----------------------------------------------------------------------------
(* u32 values: 32 bits, most significant first. SubSeq(f, 1, n) makes the  *)
(* function f a plain tuple.                                               *)

\* The value of a bit sequence (at most 31 bits).
RECURSIVE BitsValue(_)
BitsValue(bits) ==
    IF bits = <<>> THEN 0
    ELSE 2 * BitsValue(SubSeq(bits, 1, Len(bits) - 1)) + bits[Len(bits)]

\* usize as u32: the lengths of the model are below 2^31, so the top bit is 0
\* and the cast drops nothing.
as_u32(n) ==
    SubSeq([i \in 1..32 |-> IF i = 1 THEN 0 ELSE (n \div 2^(32 - i)) % 2], 1, 32)

\* Whether u32 as usize is more than n.
u32_exceeds(u, n) == u[1] = 1 \/ BitsValue(SubSeq(u, 2, 32)) > n

\* u32 as usize, for a u32 below 2^31.
as_usize(u) == BitsValue(SubSeq(u, 2, 32))

\* u32::to_be_bytes
to_be_bytes(u) == SubSeq([k \in 1..4 |-> BitsValue(SubSeq(u, 8 * k - 7, 8 * k))], 1, 4)

\* u32::to_le_bytes
to_le_bytes(u) ==
    SubSeq([k \in 1..4 |-> BitsValue(SubSeq(u, 8 * (4 - k) + 1, 8 * (5 - k)))], 1, 4)

\* u32::from_be_bytes
from_be_bytes(b) ==
    SubSeq([i \in 1..32 |-> (b[((i - 1) \div 8) + 1] \div 2^(7 - ((i - 1) % 8))) % 2],
           1, 32)

----------------------------------------------------------------------------
(* CRC-32/ISO-HDLC: reflected, polynomial 0xEDB88320, initial value and    *)
(* final xor 0xFFFFFFFF.                                                   *)

\* 0xEDB88320
CrcPoly ==
    <<1,1,1,0, 1,1,0,1, 1,0,1,1, 1,0,0,0, 1,0,0,0, 0,0,1,1, 0,0,1,0, 0,0,0,0>>

Xor32(a, b) == SubSeq([i \in 1..32 |-> (a[i] + b[i]) % 2], 1, 32)

\* One bit of the register: shift right, and xor the polynomial in when the
\* bit shifted out is 1.
crc_shift(r) ==
    LET s == <<0>> \o SubSeq(r, 1, 31)
    IN  IF r[32] = 1 THEN Xor32(s, CrcPoly) ELSE s

\* One byte: xor it into the low 8 bits, then 8 shifts.
crc_update(r, byte) ==
    LET r0 == SubSeq(r, 1, 24) \o
              SubSeq([i \in 1..8 |-> (r[24 + i] + ((byte \div 2^(8 - i)) % 2)) % 2], 1, 8)
        r1 == crc_shift(r0)
        r2 == crc_shift(r1)
        r3 == crc_shift(r2)
        r4 == crc_shift(r3)
        r5 == crc_shift(r4)
        r6 == crc_shift(r5)
        r7 == crc_shift(r6)
    IN  crc_shift(r7)

\* The register after the bytes of data, from the initial value 0xFFFFFFFF.
RECURSIVE crc_digest(_)
crc_digest(data) ==
    IF data = <<>> THEN SubSeq([i \in 1..32 |-> 1], 1, 32)
    ELSE crc_update(crc_digest(SubSeq(data, 1, Len(data) - 1)), data[Len(data)])

\* Chunk::calculate_crc
calculate_crc(data) ==
    LET r == crc_digest(data)
    IN  SubSeq([i \in 1..32 |-> 1 - r[i]], 1, 32)

----------------------------------------------------------------------------
(* chunk.rs                                                                *)

\* Chunk::new
Chunk_new(chunk_type, chunk_data) ==
    [length |-> as_u32(Len(chunk_data)),
     chunk_type |-> chunk_type,
     chunk_data |-> chunk_data,
     crc |-> calculate_crc(bytes(chunk_type) \o chunk_data)]

\* Faulty variant: the length written little-endian.
as_bytes_le_length(self) ==
    to_le_bytes(self.length) \o bytes(self.chunk_type) \o self.chunk_data
        \o to_be_bytes(self.crc)

\* Chunk::as_bytes
as_bytes(self) ==
    to_be_bytes(self.length) \o bytes(self.chunk_type) \o self.chunk_data
        \o to_be_bytes(self.crc)

\* Faulty variant: the parse without the comparison of the two checksums.
Chunk_try_from_no_crc_check(data) ==
    IF Len(data) < 4 THEN Err("UnableToReadLength")
    ELSE IF Len(data) < 8 THEN Err("UnableToReadChunkType")
    ELSE With(from_be_bytes(SubSeq(data, 1, 4)), LAMBDA length :
         With(try_from(SubSeq(data, 5, 8)), LAMBDA chunk_type :
         IF ~chunk_type.ok THEN chunk_type
         ELSE IF u32_exceeds(length, Len(data) - 8) THEN Err("UnableToReadData")
         ELSE With(as_usize(length), LAMBDA n :
              IF Len(data) - 8 - n < 4 THEN Err("UnableToReadCrc")
              ELSE OkVal([length |-> length,
                          chunk_type |-> chunk_type.val,
                          chunk_data |-> SubSeq(data, 9, 8 + n),
                          crc |-> from_be_bytes(SubSeq(data, 9 + n, 12 + n))]))))

\* impl TryFrom<&[u8]> for Chunk: length, type, payload and checksum are read
\* in this order from the front of the slice; what follows them is not read.
Chunk_try_from(data) ==
    IF Len(data) < 4 THEN Err("UnableToReadLength")
    ELSE IF Len(data) < 8 THEN Err("UnableToReadChunkType")
    ELSE With(from_be_bytes(SubSeq(data, 1, 4)), LAMBDA length :
         With(try_from(SubSeq(data, 5, 8)), LAMBDA chunk_type :
         IF ~chunk_type.ok THEN chunk_type
         ELSE IF u32_exceeds(length, Len(data) - 8) THEN Err("UnableToReadData")
         ELSE With(as_usize(length), LAMBDA n :
              IF Len(data) - 8 - n < 4 THEN Err("UnableToReadCrc")
              ELSE With(from_be_bytes(SubSeq(data, 9 + n, 12 + n)), LAMBDA crc :
                   With(calculate_crc(SubSeq(data, 5, 8 + n)), LAMBDA calculated_crc :
                   IF crc # calculated_crc
                   THEN [ok |-> FALSE, kind |-> "InvalidCrc",
                         received |-> crc, expected |-> calculated_crc]
                   ELSE OkVal([length |-> length,
                               chunk_type |-> chunk_type.val,
                               chunk_data |-> SubSeq(data, 9, 8 + n),
                               crc |-> crc]))))))

----------------------------------------------------------------------------
(* png.rs is not among the sources: the container is modelled from the     *)
(* description of its contract (signature, chunks parsed until the end of  *)
(* the buffer, append at the end, removal of the first chunk whose type    *)
(* renders to the given text).                                             *)

\* The 8-byte signature.
STANDARD_HEADER == <<137, 80, 78, 71, 13, 10, 26, 10>>

\* The chunks of a buffer, parsed one after the other until its end.
RECURSIVE parse_chunks(_)
parse_chunks(data) ==
    IF data = <<>> THEN OkVal(<<>>)
    ELSE With(Chunk_try_from(data), LAMBDA c :
         IF ~c.ok THEN c
         ELSE With(parse_chunks(SubSeq(data, 13 + Len(c.val.chunk_data), Len(data))),
                   LAMBDA more :
                   IF ~more.ok THEN more ELSE OkVal(<<c.val>> \o more.val)))

\* impl TryFrom<&[u8]> for Png
Png_try_from(data) ==
    IF Len(data) < 8 \/ SubSeq(data, 1, 8) # STANDARD_HEADER
    THEN Err("InvalidSignature")
    ELSE With(parse_chunks(SubSeq(data, 9, Len(data))), LAMBDA cs :
         IF ~cs.ok THEN cs ELSE OkVal([chunks |-> cs.val]))

\* Png::from_file
Png_from_file(files, path) ==
    IF ~files[path].exists THEN Err("Io") ELSE Png_try_from(files[path].data)

\* Png::append_chunk
append_chunk(png, chunk) == [chunks |-> Append(png.chunks, chunk)]

\* Png::remove_first_chunk: the Png without the first chunk whose type renders
\* to chunk_type, and that chunk, or the Png as it is and no chunk.
remove_first_chunk(png, chunk_type) ==
    With({i \in 1..Len(png.chunks) : to_string(png.chunks[i].chunk_type) = chunk_type},
         LAMBDA hits :
         IF hits = {} THEN [png |-> png, some |-> FALSE]
         ELSE With(CHOOSE j \in hits : \A k \in hits : j <= k, LAMBDA i :
              [png |-> [chunks |-> SubSeq(png.chunks, 1, i - 1)
                                    \o SubSeq(png.chunks, i + 1, Len(png.chunks))],
               some |-> TRUE,
               chunk |-> png.chunks[i]]))

RECURSIVE concat_bytes(_)
concat_bytes(chunks) ==
    IF chunks = <<>> THEN <<>>
    ELSE as_bytes(Head(chunks)) \o concat_bytes(Tail(chunks))

\* Png::as_bytes
Png_as_bytes(png) == STANDARD_HEADER \o concat_bytes(png.chunks)

----------------------------------------------------------------------------
(* main.rs                                                                 *)

\* String::from_utf8 accepts well-formed UTF-8 only.
RECURSIVE is_utf8(_)
is_utf8(b) ==
    LET Cont(i) == i <= Len(b) /\ b[i] >= 128 /\ b[i] <= 191
        In(i, lo, hi) == i <= Len(b) /\ b[i] >= lo /\ b[i] <= hi
        Rest(n) == is_utf8(SubSeq(b, n + 1, Len(b)))
    IN  IF b = <<>> THEN TRUE
        ELSE IF b[1] <= 127 THEN Rest(1)
        ELSE IF b[1] >= 194 /\ b[1] <= 223 THEN Cont(2) /\ Rest(2)
        ELSE IF b[1] = 224 THEN In(2, 160, 191) /\ Cont(3) /\ Rest(3)
        ELSE IF b[1] = 237 THEN In(2, 128, 159) /\ Cont(3) /\ Rest(3)
        ELSE IF b[1] >= 225 /\ b[1] <= 239 THEN Cont(2) /\ Cont(3) /\ Rest(3)
        ELSE IF b[1] = 240 THEN In(2, 144, 191) /\ Cont(3) /\ Cont(4) /\ Rest(4)
        ELSE IF b[1] = 244 THEN In(2, 128, 143) /\ Cont(3) /\ Cont(4) /\ Rest(4)
        ELSE IF b[1] >= 241 /\ b[1] <= 243 THEN Cont(2) /\ Cont(3) /\ Cont(4) /\ Rest(4)
        ELSE FALSE

\* Chunk::data_as_string
data_as_string(self) ==
    IF is_utf8(self.chunk_data) THEN OkVal(self.chunk_data)
    ELSE Err("UnableToGetMessageFromData")

\* What a verb leaves behind: the files, its Result, its file operations in
\* order, the Png it held when it returned, and its printed lines.
Outcome(files, result, effects, png, printed) ==
    [fs |-> files, result |-> result, effects |-> effects, png |-> png,
     printed |-> printed]

\* fs::OpenOptions::new().write(true).create(true): the file is made if it is
\* missing and is otherwise left as it is; write_all then writes from offset
\* 0 over what the file holds.
write_create(files, path, data) ==
    With(data, LAMBDA new :
         [files EXCEPT ![path] =
             File(new \o SubSeq(files[path].data, Len(new) + 1, Len(files[path].data)))])

\* fs::OpenOptions::new().write(true).truncate(true): the file is emptied on
\* opening; write_all then writes the data.
write_truncate(files, path, data) == [files EXCEPT ![path] = File(data)]

\* Faulty variant: one remove_first_chunk call instead of the loop.
remove_loop_once(png, chunk_type) ==
    With(remove_first_chunk(png, chunk_type), LAMBDA r :
         IF ~r.some THEN [png |-> png, removed |-> <<>>]
         ELSE [png |-> r.png, removed |-> <<r.chunk>>])

\* The loop of decode and remove: remove_first_chunk until it finds none.
RECURSIVE remove_loop(_, _)
remove_loop(png, chunk_type) ==
    With(remove_first_chunk(png, chunk_type), LAMBDA r :
         IF ~r.some THEN [png |-> png, removed |-> <<>>]
         ELSE With(remove_loop(r.png, chunk_type), LAMBDA rest :
              [png |-> rest.png, removed |-> <<r.chunk>> \o rest.removed]))

\* The rest of encode once the image is loaded: append the message chunk and
\* write the container to the destination.
encode_write(files, args, chunk_type, loaded) ==
    With(append_chunk(loaded, Chunk_new(chunk_type, args.message)), LAMBDA png :
         Outcome(write_create(files,
                              IF args.output_file.some THEN args.output_file.val
                              ELSE args.file_path,
                              Png_as_bytes(png)),
                 Ok, <<"load", "open", "write">>, Some(png),
                 <<[line |-> "Message successfuly encoded"]>>))

\* Faulty variant: the image loaded before the chunk type is checked.
encode_load_first(files, args) ==
    With(Png_from_file(files, args.file_path), LAMBDA loaded :
    With(from_str(args.chunk_type), LAMBDA chunk_type :
         IF ~loaded.ok
         THEN Outcome(files, Err("UnableToLoadImageFile"), <<"load">>, Nothing, <<>>)
         ELSE IF ~chunk_type.ok THEN Outcome(files, chunk_type, <<"load">>, Nothing, <<>>)
         ELSE IF ~is_valid_for_message(chunk_type.val).ok
         THEN Outcome(files, is_valid_for_message(chunk_type.val), <<"load">>, Nothing, <<>>)
         ELSE encode_write(files, args, chunk_type.val, loaded.val)))

\* Faulty variant: encode without the is_valid_for_message call.
encode_no_suitability_check(files, args) ==
    With(from_str(args.chunk_type), LAMBDA chunk_type :
         IF ~chunk_type.ok THEN Outcome(files, chunk_type, <<>>, Nothing, <<>>)
         ELSE With(Png_from_file(files, args.file_path), LAMBDA loaded :
              IF ~loaded.ok
              THEN Outcome(files, Err("UnableToLoadImageFile"), <<"load">>, Nothing, <<>>)
              ELSE encode_write(files, args, chunk_type.val, loaded.val)))

\* fn encode
encode(files, args) ==
    With(from_str(args.chunk_type), LAMBDA chunk_type :
         IF ~chunk_type.ok THEN Outcome(files, chunk_type, <<>>, Nothing, <<>>)
         ELSE IF ~is_valid_for_message(chunk_type.val).ok
         THEN Outcome(files, is_valid_for_message(chunk_type.val), <<>>, Nothing, <<>>)
         ELSE With(Png_from_file(files, args.file_path), LAMBDA loaded :
              IF ~loaded.ok
              THEN Outcome(files, Err("UnableToLoadImageFile"), <<"load">>, Nothing, <<>>)
              ELSE encode_write(files, args, chunk_type.val, loaded.val)))

\* The lines decode prints for the chunks it removed.
decode_lines(removed, chunk_type) ==
    With(SelectSeq(removed, LAMBDA c : data_as_string(c).ok), LAMBDA messages :
         (IF Len(messages) > 0
          THEN <<[line |-> "Messages",
                  messages |-> SubSeq([i \in 1..Len(messages) |->
                                          messages[i].chunk_data], 1, Len(messages))]>>
          ELSE <<>>)
         \o (IF Len(removed) - Len(messages) > 0
             THEN <<[line |-> "Unable to read data from chunk(s)",
                     count |-> Len(removed) - Len(messages)]>>
             ELSE <<>>)
         \o (IF Len(messages) = 0
             THEN <<[line |-> "No chunks with chunk type found",
                     chunk_type |-> chunk_type]>>
             ELSE <<>>))

\* fn decode
decode(files, args) ==
    With(Png_from_file(files, args.file_path), LAMBDA loaded :
         IF ~loaded.ok
         THEN Outcome(files, Err("UnableToLoadImageFile"), <<"load">>, Nothing, <<>>)
         ELSE With(remove_loop(loaded.val, args.chunk_type), LAMBDA done :
              Outcome(files, Ok, <<"load">>, Some(done.png),
                      decode_lines(done.removed, args.chunk_type))))

\* fn print
print(files, args) ==
    With(Png_from_file(files, args.file_path), LAMBDA loaded :
         IF ~loaded.ok
         THEN Outcome(files, Err("UnableToLoadImageFile"), <<"load">>, Nothing, <<>>)
         ELSE Outcome(files, Ok, <<"load">>, Some(loaded.val),
                      <<[line |-> "Png", chunks |-> Len(loaded.val.chunks)]>>))

\* fn remove
remove(files, args) ==
    With(Png_from_file(files, args.file_path), LAMBDA loaded :
         IF ~loaded.ok
         THEN Outcome(files, Err("UnableToLoadImageFile"), <<"load">>, Nothing, <<>>)
         ELSE With(remove_loop(loaded.val, args.chunk_type), LAMBDA done :
              IF Len(done.removed) > 0
              THEN Outcome(write_truncate(files, args.file_path, Png_as_bytes(done.png)),
                           Ok, <<"load", "open", "write">>, Some(done.png),
                           <<[line |-> "Number of chunks removed",
                              count |-> Len(done.removed)]>>)
              ELSE Outcome(files, Ok, <<"load">>, Some(done.png),
                           <<[line |-> "No chunk with chunk type found",
                              chunk_type |-> args.chunk_type]>>)))

----------------------------------------------------------------------------
(* The command line: one verb per step, on the files the steps before left. *)

\* The end-marker chunk; its checksum is 0xAE426082.
IEND == Chunk_new([bytes |-> <<73, 69, 78, 68>>], <<>>)

\* Signature and end marker only.
MinimalImage == Png_as_bytes([chunks |-> <<IEND>>])

\* An image that already holds a "ruSt" chunk whose payload is no UTF-8.
MessageImage ==
    Png_as_bytes([chunks |-> <<Chunk_new([bytes |-> <<114, 117, 83, 116>>], <<255>>),
                               IEND>>])

\* An image with two "ruSt" chunks, "h" then "i", around a "RuSt" chunk.
TwoMessageImage ==
    Png_as_bytes([chunks |-> <<Chunk_new([bytes |-> <<114, 117, 83, 116>>], <<104>>),
                               Chunk_new([bytes |-> <<82, 117, 83, 116>>], <<0>>),
                               Chunk_new([bytes |-> <<114, 117, 83, 116>>], <<105>>),
                               IEND>>])

\* A file that is no PNG.
NotAnImage == <<0>>

Init ==
    /\ TypeIdle
    /\ ChunkIdle
    /\ fs \in {[p \in Paths |-> IF p = "img" THEN img ELSE NoFile] :
                  img \in {File(MinimalImage), File(MessageImage),
                           File(TwoMessageImage), File(NotAnImage), NoFile}}
    /\ last = NoCmd

Run(cmd, args, outcome) ==
    \E o \in {outcome} :
        /\ fs' = o.fs
        /\ last' = [cmd |-> cmd, args |-> args, before |-> fs, result |-> o.result,
                    effects |-> o.effects, png |-> o.png, printed |-> o.printed]
        /\ UNCHANGED <<ct_vars, ck_vars>>

\* Whether the file at path holds a container that encode may still grow.
Growable(path) ==
    \A loaded \in {Png_from_file(fs, path)} :
        loaded.ok => Len(loaded.val.chunks) < MaxChunks

Encode ==
    \E file_path \in ImagePaths, chunk_type \in VerbTypeArgs, message \in MessageArgs,
       output_file \in {Nothing} \cup {Some(p) : p \in OutputPaths} :
        /\ Growable(file_path)
        /\ LET args == [file_path |-> file_path, chunk_type |-> chunk_type,
                        message |-> message, output_file |-> output_file]
           IN  Run("encode", args, encode(fs, args))

Decode ==
    \E file_path \in ImagePaths, chunk_type \in VerbTypeArgs :
        LET args == [file_path |-> file_path, chunk_type |-> chunk_type]
        IN  Run("decode", args, decode(fs, args))

PrintChunks ==
    \E file_path \in ImagePaths :
        LET args == [file_path |-> file_path]
        IN  Run("print", args, print(fs, args))

Remove ==
    \E file_path \in ImagePaths, chunk_type \in VerbTypeArgs :
        LET args == [file_path |-> file_path, chunk_type |-> chunk_type]
        IN  Run("remove", args, remove(fs, args))

Next ==
    \/ Encode
    \/ Decode
    \/ PrintChunks
    \/ Remove

Spec == Init /\ [][Next]_vars

----------------------------------------------------------------------------
(* The chunk-type harness: construct a ChunkType from the drawn argument,  *)
(* then call one of its methods.                                           *)

TypeInit ==
    /\ ct_pc = "start"
    /\ ct_arg \in {[kind |-> "str", bytes |-> s] : s \in StrArgs}
             \cup {[kind |-> "array", bytes |-> b] : b \in ArrayArgs}
    /\ ct_res = None
    /\ ct_call = NoCall
    /\ ChunkIdle
    /\ CliIdle

FromStr ==
    /\ ct_pc = "start"
    /\ ct_arg.kind = "str"
    /\ ct_res' = from_str(ct_arg.bytes)
    /\ ct_pc' = "made"
    /\ UNCHANGED <<ct_arg, ct_call, ck_vars, cli_vars>>

TryFrom ==
    /\ ct_pc = "start"
    /\ ct_arg.kind = "array"
    /\ ct_res' = try_from(ct_arg.bytes)
    /\ ct_pc' = "made"
    /\ UNCHANGED <<ct_arg, ct_call, ck_vars, cli_vars>>

Call(op, res) ==
    /\ ct_pc = "made"
    /\ ct_res.ok
    /\ ct_call' = [op |-> op, res |-> res]
    /\ ct_pc' = "called"
    /\ UNCHANGED <<ct_arg, ct_res, ck_vars, cli_vars>>

CallBytes == Call("bytes", bytes(ct_res.val))

CallIsValid == Call("is_valid", is_valid(ct_res.val))

CallIsValidForMessage == Call("is_valid_for_message", is_valid_for_message(ct_res.val))

CallPredicates ==
    Call("predicates",
         [critical |-> is_critical(ct_res.val),
          public |-> is_public(ct_res.val),
          reserved_bit_valid |-> is_reserved_bit_valid(ct_res.val),
          safe_to_copy |-> is_safe_to_copy(ct_res.val)])

TypeNext ==
    \/ FromStr
    \/ TryFrom
    \/ CallBytes
    \/ CallIsValid
    \/ CallIsValidForMessage
    \/ CallPredicates

SpecType == TypeInit /\ [][TypeNext]_vars

----------------------------------------------------------------------------
(* The chunk harness: build a Chunk with Chunk::new, serialize it, hand    *)
(* the bytes (as they are, with one bit flipped, cut short, or followed by *)
(* more bytes) to Chunk::try_from, and serialize the parsed Chunk again.   *)

ChunkInit ==
    /\ TypeIdle
    /\ CliIdle
    /\ ck_pc = "start"
    /\ ck_arg \in {[via |-> "from_str", chunk_type |-> t, chunk_data |-> p] :
                      t \in TypeArgs, p \in PayloadArgs}
             \cup {[via |-> "try_from", chunk_type |-> t, chunk_data |-> p] :
                      t \in {x \in TypeArgs : Len(x) = 4}, p \in PayloadArgs}
    /\ ck_chunk = None
    /\ ck_wire = <<>>
    /\ ck_tamper = None
    /\ ck_input = <<>>
    /\ ck_parsed = None
    /\ ck_back = <<>>

\* The ChunkType of the drawn arguments, by the drawn constructor.
ArgType ==
    IF ck_arg.via = "from_str" THEN from_str(ck_arg.chunk_type)
    ELSE try_from(ck_arg.chunk_type)

New ==
    /\ ck_pc = "start"
    /\ ArgType.ok
    /\ ck_chunk' = Chunk_new(ArgType.val, ck_arg.chunk_data)
    /\ ck_pc' = "built"
    /\ UNCHANGED <<ct_vars, cli_vars, ck_arg, ck_wire, ck_tamper, ck_input, ck_parsed, ck_back>>

NoType ==
    /\ ck_pc = "start"
    /\ ~ArgType.ok
    /\ ck_pc' = "rejected"
    /\ UNCHANGED <<ct_vars, cli_vars, ck_arg, ck_chunk, ck_wire, ck_tamper, ck_input, ck_parsed,
                   ck_back>>

Serialize ==
    /\ ck_pc = "built"
    /\ ck_wire' = as_bytes(ck_chunk)
    /\ ck_pc' = "wire"
    /\ UNCHANGED <<ct_vars, cli_vars, ck_arg, ck_chunk, ck_tamper, ck_input, ck_parsed, ck_back>>

\* The byte b with bit k (0 the least significant) flipped.
FlipBit(b, k) == IF (b \div 2^k) % 2 = 1 THEN b - 2^k ELSE b + 2^k

Hand(tamper, input) ==
    /\ ck_pc = "wire"
    /\ ck_tamper' = tamper
    /\ ck_input' = input
    /\ ck_pc' = "input"
    /\ UNCHANGED <<ct_vars, cli_vars, ck_arg, ck_chunk, ck_wire, ck_parsed, ck_back>>

HandIntact == Hand([kind |-> "none"], ck_wire)

HandFlipped ==
    \E pos \in 1..Len(ck_wire), bit \in 0..7 :
        Hand([kind |-> "flip", pos |-> pos, bit |-> bit],
             [ck_wire EXCEPT ![pos] = FlipBit(@, bit)])

HandTruncated ==
    \E n \in 0..(Len(ck_wire) - 1) :
        Hand([kind |-> "truncate", len |-> n], SubSeq(ck_wire, 1, n))

HandTrailing ==
    \E extra \in TrailingArgs :
        Hand([kind |-> "trailing", extra |-> extra], ck_wire \o extra)

Parse ==
    /\ ck_pc = "input"
    /\ ck_parsed' = Chunk_try_from(ck_input)
    /\ ck_pc' = "parsed"
    /\ UNCHANGED <<ct_vars, cli_vars, ck_arg, ck_chunk, ck_wire, ck_tamper, ck_input, ck_back>>

Reserialize ==
    /\ ck_pc = "parsed"
    /\ ck_parsed.ok
    /\ ck_back' = as_bytes(ck_parsed.val)
    /\ ck_pc' = "done"
    /\ UNCHANGED <<ct_vars, cli_vars, ck_arg, ck_chunk, ck_wire, ck_tamper, ck_input, ck_parsed>>

ChunkNext ==
    \/ New
    \/ NoType
    \/ Serialize
    \/ HandIntact
    \/ HandFlipped
    \/ HandTruncated
    \/ HandTrailing
    \/ Parse
    \/ Reserialize

SpecChunk == ChunkInit /\ [][ChunkNext]_vars

----------------------------------------------------------------------------
(* Claims about the chunk-type codec, checked under SpecType.              *)

IsUpper(b) == b >= 65 /\ b <= 90

IsLower(b) == b >= 97 /\ b <= 122

IsLetter(b) == IsUpper(b) \/ IsLower(b)

AllLetters(s) == \A i \in 1..Len(s) : IsLetter(s[i])

\* The one-based index of the first byte of s that is no letter.
FirstNonLetter(s) ==
    CHOOSE i \in 1..Len(s) : ~IsLetter(s[i]) /\ \A j \in 1..(i - 1) : IsLetter(s[j])

\* Bit 5 (0x20) of a byte.
Bit5(b) == (b \div 32) % 2

S_RuSt == <<82, 117, 83, 116>>
S_Rust == <<82, 117, 115, 116>>
S_Ru1t == <<82, 117, 49, 116>>
S_Ru == <<82, 117>>
S_ruSt == <<114, 117, 83, 116>>
S_ruST == <<114, 117, 83, 84>>

\* The error is_valid gives for 4 bytes b, stated from the rules: the first
\* byte that is no letter, else a lowercase third byte.
ValidityError(b) ==
    IF ~AllLetters(b)
    THEN [ok |-> FALSE, kind |-> "InvalidCharacter",
          c |-> b[FirstNonLetter(b)], pos |-> FirstNonLetter(b) - 1]
    ELSE [ok |-> FALSE, kind |-> "ReservedBitInvalid"]

TryFromDone == ct_pc # "start" /\ ct_arg.kind = "array"

FromStrDone == ct_pc # "start" /\ ct_arg.kind = "str"

\* C4 as stated: ChunkType::try_from([u8; 4]) succeeds for any 4 bytes and
\* stores them as they are.
C4_TryFromAlwaysSucceeds ==
    TryFromDone => (ct_res.ok /\ ct_res.val.bytes = ct_arg.bytes)

\* C4 (amended): ChunkType::try_from([u8; 4]) runs is_valid at construction:
\* it succeeds exactly when the 4 bytes are ASCII letters and the third is
\* uppercase, and then stores the bytes as they are (bytes() returns the
\* input); otherwise it returns is_valid's error.
C4_TryFromValidates ==
    TryFromDone =>
        /\ ct_res.ok <=> (AllLetters(ct_arg.bytes) /\ IsUpper(ct_arg.bytes[3]))
        /\ ct_res.ok => ct_res.val.bytes = ct_arg.bytes
        /\ ~ct_res.ok => ct_res = ValidityError(ct_arg.bytes)
        /\ ct_call.op = "bytes" => ct_call.res = ct_arg.bytes

C4_Witness ==
    /\ TryFromDone
    /\ ct_arg.bytes = S_RuSt
    /\ ct_call.op = "bytes"
    /\ ct_call.res = S_RuSt

\* C5 as stated: from_str succeeds exactly for 4 letters; every string that
\* is not 4 bytes long fails with the invalid-length error, and every string
\* with a non-letter byte fails with the invalid-character error at the
\* position of the first offending byte.
C5_FromStrAsStated ==
    FromStrDone =>
        /\ ct_res.ok <=> (Len(ct_arg.bytes) = 4 /\ AllLetters(ct_arg.bytes))
        /\ Len(ct_arg.bytes) # 4 => ct_res = [ok |-> FALSE, kind |-> "InvalidLength"]
        /\ ~AllLetters(ct_arg.bytes) =>
               ct_res = [ok |-> FALSE, kind |-> "InvalidCharacter",
                         c |-> ct_arg.bytes[FirstNonLetter(ct_arg.bytes)],
                         pos |-> FirstNonLetter(ct_arg.bytes) - 1]

\* C5 (amended): from_str succeeds exactly when s is 4 bytes long and every
\* byte is an ASCII letter, and then keeps the bytes; the characters are
\* checked before the length, so a string with a non-letter byte fails with
\* the invalid-character error at the zero-based position of the first such
\* byte whatever its length, and the invalid-length error is given only to
\* all-letter strings that are not 4 bytes long.
C5_FromStrCharsFirst ==
    FromStrDone =>
        /\ ct_res.ok <=> (Len(ct_arg.bytes) = 4 /\ AllLetters(ct_arg.bytes))
        /\ ct_res.ok => ct_res.val.bytes = ct_arg.bytes
        /\ ~AllLetters(ct_arg.bytes) =>
               ct_res = [ok |-> FALSE, kind |-> "InvalidCharacter",
                         c |-> ct_arg.bytes[FirstNonLetter(ct_arg.bytes)],
                         pos |-> FirstNonLetter(ct_arg.bytes) - 1]
        /\ (AllLetters(ct_arg.bytes) /\ Len(ct_arg.bytes) # 4) =>
               ct_res = [ok |-> FALSE, kind |-> "InvalidLength"]

C5_Witness ==
    /\ FromStrDone
    /\ ct_arg.bytes = S_Ru1t
    /\ ct_res = [ok |-> FALSE, kind |-> "InvalidCharacter", c |-> 49, pos |-> 2]

\* C6: is_valid returns Ok exactly when the 4 bytes are letters and the
\* third is uppercase; a non-letter byte gives the invalid-character error
\* (checked first), letters with a lowercase third byte the reserved-bit
\* error. On a constructed ChunkType it is seen through the is_valid call,
\* on the unchecked 4 bytes through try_from, which returns its verdict.
C6_IsValid ==
    /\ ct_call.op = "is_valid" =>
          /\ ct_call.res.ok <=>
                (AllLetters(ct_res.val.bytes) /\ IsUpper(ct_res.val.bytes[3]))
          /\ ~ct_call.res.ok => ct_call.res = ValidityError(ct_res.val.bytes)
    /\ (TryFromDone /\ ~AllLetters(ct_arg.bytes)) =>
          (~ct_res.ok /\ ct_res.kind = "InvalidCharacter")
    /\ (TryFromDone /\ AllLetters(ct_arg.bytes) /\ IsLower(ct_arg.bytes[3])) =>
          ct_res = [ok |-> FALSE, kind |-> "ReservedBitInvalid"]

C6_Witness ==
    /\ ct_call.op = "is_valid"
    /\ ct_res.val.bytes = S_Rust
    /\ ct_call.res = [ok |-> FALSE, kind |-> "ReservedBitInvalid"]

\* The verdict the suitability rules give in their order: validate,
\* critical, public, unsafe-to-copy.
Suitability(b) ==
    IF ~(AllLetters(b) /\ IsUpper(b[3])) THEN ValidityError(b)
    ELSE IF IsUpper(b[1]) THEN [ok |-> FALSE, kind |-> "Critical"]
    ELSE IF IsUpper(b[2]) THEN [ok |-> FALSE, kind |-> "Public"]
    ELSE IF IsUpper(b[4]) THEN [ok |-> FALSE, kind |-> "UnsafeToCopy"]
    ELSE [ok |-> TRUE]

\* C7: is_valid_for_message returns Ok exactly for the letter pattern
\* lower-lower-UPPER-lower, and otherwise the error of the first violated
\* rule in the order validate, critical, public, unsafe-to-copy.
C7_IsValidForMessage ==
    ct_call.op = "is_valid_for_message" =>
        /\ ct_call.res.ok <=>
              /\ IsLower(ct_res.val.bytes[1])
              /\ IsLower(ct_res.val.bytes[2])
              /\ IsUpper(ct_res.val.bytes[3])
              /\ IsLower(ct_res.val.bytes[4])
        /\ ct_call.res = Suitability(ct_res.val.bytes)

C7_Witness ==
    /\ ct_call.op = "is_valid_for_message"
    /\ ct_res.val.bytes = S_ruST
    /\ ct_call.res = [ok |-> FALSE, kind |-> "UnsafeToCopy"]

----------------------------------------------------------------------------
(* Claims about the chunk codec, checked under SpecChunk.                  *)

Parsed == ck_pc \in {"parsed", "done"}

\* Whether the Chunk built by Chunk::new carries a type that passes is_valid.
BuiltTypeValid ==
    AllLetters(ck_chunk.chunk_type.bytes) /\ IsUpper(ck_chunk.chunk_type.bytes[3])

\* Whether the tampering flipped a bit of the payload region of the bytes.
PayloadBitFlipped ==
    /\ ck_tamper.kind = "flip"
    /\ ck_tamper.pos > 8
    /\ ck_tamper.pos <= 8 + Len(ck_chunk.chunk_data)

\* C1 as stated: parsing the bytes of any Chunk built by Chunk::new gives
\* the same length, type, payload and crc, and the bytes of any Chunk that
\* was parsed from a slice are that slice.
C1_RoundTripAsStated ==
    /\ (Parsed /\ ck_tamper.kind = "none") => (ck_parsed.ok /\ ck_parsed.val = ck_chunk)
    /\ ck_pc = "done" => ck_back = ck_input

\* C1 (amended): for a Chunk built by Chunk::new with a type that passes
\* is_valid, parsing as_bytes() succeeds and gives the same length, type
\* bytes, payload and crc; with a from_str type whose third letter is
\* lowercase the parse of as_bytes() fails with the reserved-bit error. For a
\* slice b that parses to a Chunk c, c.as_bytes() is the first 12 + length
\* bytes of b: b itself exactly when nothing follows the checksum in b.
C1_RoundTrip ==
    /\ (Parsed /\ ck_tamper.kind = "none" /\ BuiltTypeValid) =>
          /\ ck_parsed.ok
          /\ ck_parsed.val.length = ck_chunk.length
          /\ ck_parsed.val.chunk_type.bytes = ck_chunk.chunk_type.bytes
          /\ ck_parsed.val.chunk_data = ck_chunk.chunk_data
          /\ ck_parsed.val.crc = ck_chunk.crc
    /\ (Parsed /\ ck_tamper.kind = "none" /\ ~BuiltTypeValid) =>
          ck_parsed = [ok |-> FALSE, kind |-> "ReservedBitInvalid"]
    /\ ck_pc = "done" =>
          /\ Len(ck_back) = 12 + Len(ck_parsed.val.chunk_data)
          /\ Len(ck_back) <= Len(ck_input)
          /\ ck_back = SubSeq(ck_input, 1, Len(ck_back))
          /\ (ck_back = ck_input) <=> (ck_tamper.kind # "trailing")

C1_Witness ==
    /\ ck_pc = "done"
    /\ ck_tamper.kind = "none"
    /\ ck_arg.chunk_type = S_RuSt
    /\ ck_arg.chunk_data = <<104, 255>>
    /\ ck_back = ck_input

\* C2 as stated: the parse returns a Chunk only when the checksum read from
\* the input equals the CRC-32 of type and payload, and a single flipped
\* payload bit in the bytes of any Chunk built by Chunk::new makes the parse
\* fail with the checksum error.
C2_ChecksumAsStated ==
    /\ (Parsed /\ ck_parsed.ok) =>
          ck_parsed.val.crc
              = Chunk_new(ck_parsed.val.chunk_type, ck_parsed.val.chunk_data).crc
    /\ (Parsed /\ PayloadBitFlipped) =>
          (~ck_parsed.ok /\ ck_parsed.kind = "InvalidCrc")

\* C2 (amended): the parse returns a Chunk only when the checksum read from
\* the input equals the CRC-32 of type and payload. A single flipped payload
\* bit in the bytes of a Chunk built by Chunk::new with a type that passes
\* is_valid makes the parse fail with the checksum error, which reports the
\* checksum of the untouched bytes as received; with a type that fails
\* is_valid the parse fails before the checksum is read, with the error of
\* the type.
C2_Checksum ==
    /\ (Parsed /\ ck_parsed.ok) =>
          /\ ck_parsed.val.crc
                = Chunk_new(ck_parsed.val.chunk_type, ck_parsed.val.chunk_data).crc
          /\ SubSeq(ck_input, 9 + Len(ck_parsed.val.chunk_data),
                    12 + Len(ck_parsed.val.chunk_data))
                = to_be_bytes(ck_parsed.val.crc)
    /\ (Parsed /\ PayloadBitFlipped /\ BuiltTypeValid) =>
          /\ ~ck_parsed.ok
          /\ ck_parsed.kind = "InvalidCrc"
          /\ ck_parsed.received = ck_chunk.crc
          /\ ck_parsed.expected # ck_chunk.crc
    /\ (Parsed /\ PayloadBitFlipped /\ ~BuiltTypeValid) =>
          ck_parsed = [ok |-> FALSE, kind |-> "ReservedBitInvalid"]

C2_Witness ==
    /\ Parsed
    /\ PayloadBitFlipped
    /\ ck_arg.chunk_type = S_RuSt
    /\ ~ck_parsed.ok
    /\ ck_parsed.kind = "InvalidCrc"

----------------------------------------------------------------------------
(* Claims about the verbs, checked under Spec.                             *)

S_IEND == <<73, 69, 78, 68>>

\* Whether the text s is 4 letters with the third uppercase.
IsValidType(s) == Len(s) = 4 /\ AllLetters(s) /\ IsUpper(s[3])

\* Whether the text s has the letter pattern lower-lower-UPPER-lower.
IsMessageType(s) ==
    /\ Len(s) = 4
    /\ IsLower(s[1])
    /\ IsLower(s[2])
    /\ IsUpper(s[3])
    /\ IsLower(s[4])

\* The type-validity error of a text s that is no valid type.
TypeTextError(s) ==
    IF ~AllLetters(s)
    THEN [ok |-> FALSE, kind |-> "InvalidCharacter",
          c |-> s[FirstNonLetter(s)], pos |-> FirstNonLetter(s) - 1]
    ELSE IF Len(s) # 4 THEN [ok |-> FALSE, kind |-> "InvalidLength"]
    ELSE [ok |-> FALSE, kind |-> "ReservedBitInvalid"]

TypeErrorKinds ==
    {"InvalidCharacter", "InvalidLength", "ReservedBitInvalid",
     "Critical", "Public", "UnsafeToCopy"}

\* Whether chunk c is the end marker: type IEND, empty payload.
IsEndMarker(c) == c.chunk_type.bytes = S_IEND /\ c.chunk_data = <<>>

\* C3: the last chunk of the container a verb holds is the end marker:
\* append inserts before it and removal by type never removes it.
C3_EndMarkerLast ==
    (last.cmd # "none" /\ last.png.some) =>
        /\ Len(last.png.val.chunks) > 0
        /\ IsEndMarker(last.png.val.chunks[Len(last.png.val.chunks)])

\* C9: when the chunk type given to encode fails from_str or
\* is_valid_for_message, encode returns that error before anything else: the
\* image is not loaded, no chunk is appended, no file is opened or written,
\* and the files are as they were.
C9_EncodeChecksTypeFirst ==
    (last.cmd = "encode" /\ ~IsMessageType(last.args.chunk_type)) =>
        /\ ~last.result.ok
        /\ last.result.kind \in TypeErrorKinds
        /\ last.effects = <<>>
        /\ ~last.png.some
        /\ last.printed = <<>>
        /\ fs = last.before

C9_Witness ==
    /\ last.cmd = "encode"
    /\ last.args.chunk_type = S_RuSt
    /\ last.before["img"] = File(MinimalImage)
    /\ last.result = [ok |-> FALSE, kind |-> "Critical"]
    /\ last.effects = <<>>
    /\ fs = last.before

\* C10 as stated: in encode, decode and remove alike, a chunk type that is
\* no valid type makes the verb abort with a type-validity error instead of
\* searching, printing or rewriting the file.
C10_TypeCheckedInEveryVerb ==
    (last.cmd \in {"encode", "decode", "remove"} /\ ~IsValidType(last.args.chunk_type)) =>
        /\ ~last.result.ok
        /\ last.result.kind \in TypeErrorKinds
        /\ last.effects = <<>>
        /\ last.printed = <<>>
        /\ fs = last.before

\* C10 (amended): only encode validates the chunk type it is given: with a
\* text that is no valid type it aborts, before loading the image, with the
\* type-validity error (naming the character and zero-based position of the
\* first non-letter byte; else invalid length; else reserved bit). decode
\* and remove do not validate it: they load the image and search it, and as
\* no chunk of a loaded container renders to such a text they find nothing,
\* return Ok, print the not-found line with the text, and write no file.
C10_TypeCheckedInEncodeOnly ==
    /\ (last.cmd = "encode" /\ ~IsValidType(last.args.chunk_type)) =>
          /\ last.result = TypeTextError(last.args.chunk_type)
          /\ last.effects = <<>>
          /\ last.printed = <<>>
          /\ fs = last.before
    /\ (last.cmd \in {"decode", "remove"} /\ ~IsValidType(last.args.chunk_type)) =>
          /\ last.effects = <<"load">>
          /\ fs = last.before
          /\ last.result.ok \/ last.result = [ok |-> FALSE, kind |-> "UnableToLoadImageFile"]
          /\ last.result.ok =>
                /\ Len(last.printed) = 1
                /\ last.printed[1].chunk_type = last.args.chunk_type
                /\ last.printed[1].line
                      = (IF last.cmd = "decode" THEN "No chunks with chunk type found"
                         ELSE "No chunk with chunk type found")
                /\ last.png.some
                /\ Png_as_bytes(last.png.val) = fs[last.args.file_path].data

C10_Witness ==
    /\ last.cmd = "decode"
    /\ last.args.chunk_type = S_Ru1t
    /\ last.result.ok
    /\ last.printed = <<[line |-> "No chunks with chunk type found",
                         chunk_type |-> S_Ru1t]>>

----------------------------------------------------------------------------
(* C11: removal by type, seen through the loops of decode and remove.      *)

\* The chunks of the image the last verb loaded.
LoadedChunks == Png_try_from(last.before[last.args.file_path].data).val.chunks

\* Whether chunk c has the type the last verb was given.
HasGivenType(c) == c.chunk_type.bytes = last.args.chunk_type

\* The chunks of the given type in the loaded image, in file order.
Matching == SelectSeq(LoadedChunks, HasGivenType)

\* The other chunks of the loaded image, in file order.
Others == SelectSeq(LoadedChunks, LAMBDA c : ~HasGivenType(c))

Payloads(chunks) == SubSeq([i \in 1..Len(chunks) |-> chunks[i].chunk_data], 1, Len(chunks))

\* C11: for a container with k chunks of type T, the loop of decode and of
\* remove takes out exactly those k chunks, first to last in file order, and
\* stops at the first "not found": the container then holds the other chunks
\* unchanged and in their order and no chunk of type T; decode prints the k
\* payloads in file order (the readable ones as messages, the rest counted),
\* remove reports k and writes the remaining container, or writes nothing
\* when k = 0.
C11_RemoveAllInOrder ==
    (last.cmd \in {"decode", "remove"} /\ last.result.ok) =>
        /\ last.png.val.chunks = Others
        /\ \A i \in 1..Len(last.png.val.chunks) : ~HasGivenType(last.png.val.chunks[i])
        /\ last.cmd = "decode" =>
              /\ Matching = <<>> =>
                    last.printed = <<[line |-> "No chunks with chunk type found",
                                      chunk_type |-> last.args.chunk_type]>>
              /\ \A i \in 1..Len(last.printed) :
                    /\ last.printed[i].line = "Messages" =>
                          last.printed[i].messages
                              = Payloads(SelectSeq(Matching,
                                                   LAMBDA c : \A j \in 1..Len(c.chunk_data) :
                                                                 c.chunk_data[j] < 128))
                    /\ last.printed[i].line = "Unable to read data from chunk(s)" =>
                          last.printed[i].count
                              = Len(SelectSeq(Matching,
                                              LAMBDA c : \E j \in 1..Len(c.chunk_data) :
                                                            c.chunk_data[j] >= 128))
              /\ Matching # <<>> =>
                    \E i \in 1..Len(last.printed) :
                        last.printed[i].line \in {"Messages",
                                                  "Unable to read data from chunk(s)"}
        /\ (last.cmd = "remove" /\ Matching # <<>>) =>
              /\ last.printed = <<[line |-> "Number of chunks removed",
                                   count |-> Len(Matching)]>>
              /\ fs[last.args.file_path] = File(Png_as_bytes([chunks |-> Others]))
        /\ (last.cmd = "remove" /\ Matching = <<>>) =>
              /\ fs = last.before
              /\ last.printed = <<[line |-> "No chunk with chunk type found",
                                   chunk_type |-> last.args.chunk_type]>>

C11_Witness ==
    /\ last.cmd = "decode"
    /\ last.before["img"] = File(TwoMessageImage)
    /\ last.args.chunk_type = S_ruSt
    /\ last.result.ok
    /\ last.printed = <<[line |-> "Messages", messages |-> <<<<104>>, <<105>>>>]>>
    /\ Len(last.png.val.chunks) = 2

----------------------------------------------------------------------------
(* C12: what the destination file holds after encode.                      *)

\* The file encode writes to: the output file when given, else the image.
Destination ==
    IF last.args.output_file.some THEN last.args.output_file.val
    ELSE last.args.file_path

\* C12: after a successful encode the destination file holds exactly the
\* serialized container, the loaded chunks followed by the new message
\* chunk, whatever the file held before.
C12_EncodeReplacesDestination ==
    (last.cmd = "encode" /\ last.result.ok) =>
        /\ last.png.val.chunks
              = Append(LoadedChunks,
                       Chunk_new([bytes |-> last.args.chunk_type], last.args.message))
        /\ fs[Destination] = File(Png_as_bytes(last.png.val))

====
